---- MODULE Spec2Model ----
(***************************************************************************)
(* DeriConsole: the webSocketClient session object (webSocketClient.cpp),  *)
(* driven by a foreground caller and by the websocketpp event-loop thread. *)
(*                                                                         *)
(* A std::string is a tuple of text chunks (<<"ticker", ".BTC">> is        *)
(* "ticker.BTC"); a nlohmann::json value is a record tagged with its type. *)
(***************************************************************************)
EXTENDS Integers, Sequences, FiniteSets, TLC

(* ------------------------------------------------------------------ *)
(* nlohmann::json values                                               *)
(* ------------------------------------------------------------------ *)
JNull == [t |-> "null"]
JBool(b) == [t |-> "boolean", v |-> b]
JNum(n) == [t |-> "number", v |-> n]
JStr(s) == [t |-> "string", v |-> s]
JArr(s) == [t |-> "array", v |-> s]
JObj(f) == [t |-> "object", v |-> f]

\* json::contains(key): false for every value that is not an object
Contains(j, k) == j.t = "object" /\ k \in DOMAIN j.v

\* json::operator[](key) on a key that is present
At(j, k) == j.v[k]

\* json == "literal": a string value with exactly that text
EqualsText(j, s) == j.t = "string" /\ j.v = s

\* conversion json -> std::string throws type_error unless the value is a string
ThrowsOnGetString(j) == j.t # "string"

\* the text of a std::string: its chunks concatenated
RECURSIVE Flat(_)
Flat(s) == IF s = <<>> THEN "" ELSE Head(s) \o Flat(Tail(s))

\* std::map orders object keys; the keys used in payloads, in that order
KeyOrder ==
    <<"asks", "bids", "client_id", "grant_type", "id", "jsonrpc", "last_price", "method",
      "nonce", "params", "scope", "signature", "timestamp">>

\* json::dump(): the compact serialization of a value
RECURSIVE Dump(_)
RECURSIVE DumpSeq(_)
RECURSIVE DumpKeys(_, _, _)
Dump(j) ==
    CASE j.t = "null" -> "null"
      [] j.t = "boolean" -> (IF j.v THEN "true" ELSE "false")
      [] j.t = "number" -> ToString(j.v)
      [] j.t = "string" -> "\"" \o Flat(j.v) \o "\""
      [] j.t = "array" -> "[" \o DumpSeq(j.v) \o "]"
      [] j.t = "object" -> "{" \o DumpKeys(j.v, KeyOrder, TRUE) \o "}"
DumpSeq(s) ==
    IF s = <<>> THEN ""
    ELSE IF Len(s) = 1 THEN Dump(s[1])
    ELSE Dump(s[1]) \o "," \o DumpSeq(Tail(s))
DumpKeys(f, ks, first) ==
    IF ks = <<>> THEN ""
    ELSE IF Head(ks) \in DOMAIN f
         THEN (IF first THEN "" ELSE ",") \o "\"" \o Head(ks) \o "\":"
              \o Dump(f[Head(ks)]) \o DumpKeys(f, Tail(ks), FALSE)
         ELSE DumpKeys(f, Tail(ks), first)

\* utils::hmacSha256: the hex digest, kept as a term over the key and the data
\* (two digests are equal exactly when key and data are)
HmacSha256(secret, data) == <<"hmac(">> \o secret \o <<",">> \o data \o <<")">>

\* getClientSignature with the nonce left out of the string to sign
GetClientSignature_noNonce(clientSecret, timeStamp, nonce, data) ==
    LET stringToSign == timeStamp \o <<"\n">> \o <<"\n">> \o data
    IN  HmacSha256(clientSecret, stringToSign)

\* utils::getClientSignature
GetClientSignature(clientSecret, timeStamp, nonce, data) ==
    LET stringToSign == timeStamp \o <<"\n">> \o nonce \o <<"\n">> \o data
    IN  HmacSha256(clientSecret, stringToSign)

\* the scope string of deriapi::authorize
Scope == <<"block_rfq:read_write block_trade:read_write trade:read_write ",
           "custody:read_write account:read_write wallet:read_write mainaccount">>

\* deriapi::authorize; timeStamp and nonce are the values utils::getTimeStamp() and
\* utils::getNonce() return to it
Authorize(clientId, clientSecret, timeStamp, nonce) ==
    LET clientSignature == GetClientSignature(clientSecret, timeStamp, nonce, <<>>)
        authRequest ==
            JObj([jsonrpc |-> JStr(<<"2.0">>),
                  id |-> JNum(1),
                  method |-> JStr(<<"public/auth">>),
                  params |-> JObj([grant_type |-> JStr(<<"client_signature">>),
                                   client_id |-> JStr(clientId),
                                   timestamp |-> JStr(timeStamp),
                                   signature |-> JStr(clientSignature),
                                   nonce |-> JStr(nonce),
                                   scope |-> JStr(Scope)])])
    IN  Dump(authRequest)

\* std::string::find(needle) != npos, for a needle that is one chunk
Find(s, needle) == \E i \in 1..Len(s) : s[i] = needle

(* ------------------------------------------------------------------ *)
(* Inputs: channel names, push payloads, replies                       *)
(* ------------------------------------------------------------------ *)
\* number of distinct access tokens the remote may issue
MaxTokens == 2

Tokens == { <<"tok", ToString(i)>> : i \in 1..MaxTokens }

\* the channel the foreground subscribes to and the remote pushes on
Ticker == <<"ticker", ".BTC">>

EmptyString == <<>>

\* channel names of every category, names that match two categories, a name that
\* matches none, and the empty name
RegistryChannels ==
    { EmptyString, Ticker, <<"trades", ".BTC">>, <<"book", ".BTC">>, <<"user", ".BTC">>,
      <<"book", ".", "ticker">>, <<"trades", ".", "ticker">>, <<"book", ".", "trades">> }

\* channels subscribed at the same time
MaxSubscriptions == 1

\* what the user types at case 1 of the menu, what the clock and the random
\* generator give the callback
ClientIds == { <<"id", "1">>, <<"id", "2">> }
ClientSecrets == { <<"key", "1">>, <<"key", "2">> }
TimeStamps == { <<"1700000000000">>, <<"1700000000100">> }
Nonces == { <<"abcd1234">>, <<"zzzz9999">> }

\* the ones of a session whose credentials do not matter
SessionId == <<"id", "1">>
SessionSecret == <<"key", "1">>
SessionTime == <<"1700000000000">>
SessionNonce == <<"abcd1234">>

\* one payload of every JSON shape
ObjPayload == JObj([bids |-> JArr(<<JNum(100)>>), asks |-> JArr(<<JNum(101)>>)])
Payloads ==
    { ObjPayload, JArr(<<JNum(1)>>), JStr(<<"up">>), JNum(7), JBool(TRUE), JNull }

\* params.channel as it can arrive: a string, {name: string}, {name: number},
\* an object without name, a number
ChannelForms(chans) ==
    { JStr(c) : c \in chans }
    \cup { JObj([name |-> JStr(c)]) : c \in chans }
    \cup { JObj([name |-> JNum(1)]), JObj([id |-> JNum(1)]), JNum(3) }

Subscription == JStr(<<"subscription">>)

Push(channel, data) ==
    JObj([method |-> Subscription, params |-> JObj([channel |-> channel, data |-> data])])

\* well-formed pushes: the channel as a string, every payload of the channel
PlainPushes(chans) == { Push(JStr(c), d) : c \in chans, d \in Payloads }

\* pushes in every other form: other channel forms, no data, no channel, no params
OddPushes(chans) ==
    { Push(f, ObjPayload) : f \in ChannelForms(chans) }
    \cup { JObj([method |-> Subscription, params |-> JObj([channel |-> JStr(c)])]) :
             c \in chans }
    \cup { JObj([method |-> Subscription, params |-> JObj([data |-> ObjPayload])]),
           JObj([method |-> Subscription, params |-> JNum(0)]),
           JObj([method |-> Subscription]) }

\* values of the fields a result can carry
AnOrder == JObj([order_id |-> JStr(<<"O1">>)])
FieldValue(k) ==
    CASE k = "balance" -> JNum(10)
      [] k = "order" -> AnOrder
      [] k = "order_id" -> JStr(<<"X">>)
      [] k = "bids" -> JArr(<<>>)
      [] k = "asks" -> JArr(<<>>)
      [] k = "time_in_force" -> JStr(<<"gtc">>)

\* the field sets of the results without access_token
PlainShapes ==
    { {}, {"balance"}, {"balance", "order", "order_id"}, {"order"},
      {"order", "order_id"}, {"order_id", "time_in_force"},
      {"order_id", "bids", "asks"}, {"bids", "asks"}, {"bids"}, {"time_in_force"} }

PlainResult(S) == JObj([k \in S |-> FieldValue(k)])

TokenValues == { JStr(t) : t \in Tokens } \cup { JNum(5) }

AuthResult(tok, S) ==
    JObj([k \in S \cup {"access_token"} |->
            IF k = "access_token" THEN tok ELSE FieldValue(k)])

Results ==
    { PlainResult(S) : S \in PlainShapes }
    \cup { AuthResult(tok, S) : tok \in TokenValues, S \in { {}, {"balance", "order_id"} } }
    \cup { JArr(<<>>), JArr(<<JObj([size |-> JNum(1)])>>), JNum(0), JNull }

Reply(r) == JObj([result |-> r])

ErrorMessages ==
    { JObj([error |-> JObj([message |-> JStr(<<"bad">>)])]),
      JObj([error |-> JObj([code |-> JNum(1)])]),
      JObj([error |-> JObj([message |-> JNum(1)])]),
      JObj([error |-> JNum(1)]) }

\* text that does not parse
Malformed == [t |-> "malformed"]

\* everything the remote can send
Inbound(chans) ==
    PlainPushes(chans) \cup OddPushes(chans)
    \cup { Reply(r) : r \in Results }
    \cup ErrorMessages
    \cup { JObj([id |-> JNum(1)]), JNum(1), Malformed }

\* pushes on every channel of the registry, pushes in every other form, text that
\* does not parse
RegistryInbound ==
    PlainPushes(RegistryChannels) \cup OddPushes({ Ticker, EmptyString }) \cup { Malformed }

\* the traffic of a plain session: a push, an auth reply, text that does not parse
SessionInbound(chans) ==
    { Push(JStr(c), ObjPayload) : c \in chans }
    \cup { Reply(AuthResult(JStr(<<"tok", "1">>), {})), Malformed }

(* ------------------------------------------------------------------ *)
(* State                                                               *)
(* ------------------------------------------------------------------ *)
VARIABLES
    m_connected,            \* bool m_connected
    m_authRequestCallback,  \* TRUE when a callback is registered
    m_authenticated,        \* bool m_authenticated
    m_waitingForResponse,   \* bool m_waitingForResponse
    m_accessToken,          \* std::string m_accessToken
    m_lastData,             \* std::map channel -> last serialization
    m_subscribedChannels,   \* std::set of channel names
    m_hdl,                  \* "empty" or "con": the connection handle
    joinable,               \* m_eventLoopThread.joinable()
    con_state,              \* the connection: idle, connecting, open, closing, closed, failed
    perpetual,              \* the endpoint's perpetual-work guard
    stopped,                \* the io_service has been stopped
    aborted,                \* std::terminate has been called
    fg_pc,                  \* foreground thread: position inside the current call
    fg_arg,                 \* the channel argument of the current call
    fg_ret,                 \* the last call that returned, and whether it reported an error
    el_pc,                  \* event-loop thread: position inside the current callback
    el,                     \* locals of the on_message call in progress
    authRequests,           \* auth requests handed to the socket by the callback
    captured,               \* clientId and clientSecret captured by the callback
    authCall,               \* the last run of the callback: what it passed to send
    lastTokReply,           \* access_token of the last reply handled that carried one
    lastStrTok,             \* the same, counting only replies whose token is a string
    prevPush,               \* the previous push handled for a subscribed channel
    unsubbed,               \* channels unsubscribed and not subscribed again since
    fresh,                  \* channels subscribed with no push taken up since
    closeSnap,              \* state at the start of a close() that follows a close()
    main_pc,                \* main(): position in the menu loop
    outstanding,            \* a menu request has been sent and no reply handled since
    choice,                 \* main(): int choice, the last value read at line 48
    onFailRan,              \* on_fail has run
    opened,                 \* number of times on_open has run
    callbackRuns            \* number of times the auth-request callback has been invoked

conn_vars == <<m_connected, m_hdl, joinable, con_state, perpetual, stopped>>
auth_vars == <<m_authenticated, m_accessToken, lastTokReply, lastStrTok>>
sub_vars == <<m_lastData, m_subscribedChannels, prevPush, unsubbed, fresh>>
main_vars == <<main_pc, outstanding, choice>>
fg_vars == <<fg_pc, fg_arg, fg_ret, closeSnap, main_vars>>
el_vars == <<el_pc, el>>
misc_vars == <<m_authRequestCallback, m_waitingForResponse, aborted, authRequests>>
life_vars == <<onFailRan, opened, callbackRuns>>
cred_vars == <<captured, authCall>>
vars == <<conn_vars, auth_vars, sub_vars, fg_vars, el_vars, misc_vars, life_vars, cred_vars>>

None == [t |-> "none"]
NoLocals == [kind |-> "none"]
NoCall == [op |-> "none", err |-> FALSE, second |-> FALSE, changed |-> FALSE]
EmptyMap == [c \in {} |-> ""]

\* webSocketClient::webSocketClient()
Init ==
    /\ m_connected = FALSE
    /\ m_authRequestCallback = FALSE
    /\ m_authenticated = FALSE
    /\ m_waitingForResponse = FALSE
    /\ m_accessToken = EmptyString
    /\ m_lastData = EmptyMap
    /\ m_subscribedChannels = {}
    /\ m_hdl = "empty"
    /\ joinable = FALSE
    /\ con_state = "idle"
    /\ perpetual = TRUE
    /\ stopped = FALSE
    /\ aborted = FALSE
    /\ fg_pc = "ready"
    /\ fg_arg = EmptyString
    /\ fg_ret = NoCall
    /\ el_pc = "none"
    /\ el = NoLocals
    /\ authRequests = 0
    /\ lastTokReply = None
    /\ lastStrTok = None
    /\ prevPush = None
    /\ unsubbed = {}
    /\ fresh = {}
    /\ closeSnap = None
    /\ main_pc = "menu"
    /\ outstanding = FALSE
    /\ choice = 0
    /\ onFailRan = FALSE
    /\ opened = 0
    /\ callbackRuns = 0
    /\ captured = None
    /\ authCall = None

\* std::map::operator[]: the entry, default-inserted when the key is absent
MapIndex(m, ch) == IF ch \in DOMAIN m THEN m ELSE [c \in DOMAIN m \cup {ch} |-> IF c = ch THEN "" ELSE m[c]]

\* m[ch] = v
MapAssign(m, ch, v) == [c \in DOMAIN m \cup {ch} |-> IF c = ch THEN v ELSE m[c]]

\* MapFind when the lookup of line 394 is left out
MapFind_always(m, ch) == TRUE

\* std::map::find(key) != end()
MapFind(m, ch) == ch \in DOMAIN m

\* std::map::erase(key)
MapErase(m, ch) == [c \in DOMAIN m \ {ch} |-> m[c]]

\* HandleError when the endpoint accepts a message for any handle
HandleError_never == FALSE

\* m_endpoint.send / m_endpoint.close report an error unless the handle names an open connection
HandleError == m_hdl = "empty" \/ con_state # "open"

(* ------------------------------------------------------------------ *)
(* Foreground thread                                                   *)
(* ------------------------------------------------------------------ *)
FgReady == ~aborted /\ fg_pc = "ready"

\* the record of a call other than a repeated close() that has returned
Returned(op, err) == [op |-> op, err |-> err, second |-> FALSE, changed |-> FALSE]

\* a subscribe or unsubscribe of ch disturbs the push being handled for ch
\* and ends the run of consecutive pushes for ch
Disturb(ch) ==
    /\ el' = IF el.kind = "push" /\ el.channel = ch THEN [el EXCEPT !.disturbed = TRUE] ELSE el
    /\ prevPush' = IF prevPush # None /\ prevPush.channel = ch THEN None ELSE prevPush

\* webSocketClient::setAuthRequestCallback, with the callback main() passes:
\* a lambda that captures clientId and clientSecret by value
SetAuthRequestCallback(clientId, clientSecret) ==
    /\ FgReady
    /\ m_authRequestCallback' = TRUE
    /\ captured' = [clientId |-> clientId, clientSecret |-> clientSecret]
    /\ fg_ret' = Returned("setAuthRequestCallback", FALSE)
    /\ closeSnap' = None
    /\ UNCHANGED <<conn_vars, auth_vars, sub_vars, el_vars, fg_pc, fg_arg,
                   m_waitingForResponse, aborted, authRequests, authCall>>
    /\ UNCHANGED life_vars

\* webSocketClient::send, called by the foreground
Send ==
    /\ FgReady
    /\ fg_ret' = Returned("send", HandleError)
    /\ closeSnap' = None
    /\ UNCHANGED <<conn_vars, auth_vars, sub_vars, el_vars, misc_vars, fg_pc, fg_arg>>
    /\ UNCHANGED life_vars
    /\ UNCHANGED cred_vars

\* Connect without the early return of lines 86-89
Connect_noEarlyReturn(uriOk) ==
    /\ FgReady
    /\ closeSnap' = None
    /\ IF joinable
       THEN /\ aborted' = TRUE
            /\ con_state' = "connecting"
            /\ UNCHANGED <<m_connected, m_hdl, joinable, perpetual, stopped, fg_ret, el_pc>>
       ELSE /\ con_state' = "connecting"
            /\ joinable' = TRUE
            /\ el_pc' = "idle"
            /\ fg_ret' = Returned("connect", ~uriOk)
            /\ UNCHANGED <<m_connected, m_hdl, perpetual, stopped, aborted>>
    /\ UNCHANGED <<auth_vars, sub_vars, el, fg_pc, fg_arg,
                   m_authRequestCallback, m_waitingForResponse, authRequests>>
    /\ UNCHANGED life_vars
    /\ UNCHANGED cred_vars

\* webSocketClient::connect: uriOk is whether get_connection accepts the uri
Connect(uriOk) ==
    /\ FgReady
    /\ closeSnap' = None
    /\ IF ~uriOk
       THEN /\ fg_ret' = Returned("connect", TRUE)
            /\ UNCHANGED <<conn_vars, aborted, el_pc>>
       ELSE IF joinable
       THEN \* assigning to a joinable std::thread calls std::terminate
            /\ aborted' = TRUE
            /\ con_state' = "connecting"
            /\ UNCHANGED <<m_connected, m_hdl, joinable, perpetual, stopped, fg_ret, el_pc>>
       ELSE /\ con_state' = "connecting"
            /\ joinable' = TRUE
            /\ el_pc' = "idle"
            /\ fg_ret' = Returned("connect", FALSE)
            /\ UNCHANGED <<m_connected, m_hdl, perpetual, stopped, aborted>>
    /\ UNCHANGED <<auth_vars, sub_vars, el, fg_pc, fg_arg,
                   m_authRequestCallback, m_waitingForResponse, authRequests>>
    /\ UNCHANGED life_vars
    /\ UNCHANGED cred_vars

\* webSocketClient::subscribe, lines 159-161: send the request, insert into the set
Subscribe(ch) ==
    /\ FgReady
    /\ fg_pc' = "sub_map"
    /\ fg_arg' = ch
    /\ fg_ret' = Returned("subscribe", HandleError)
    /\ closeSnap' = None
    /\ m_subscribedChannels' = m_subscribedChannels \cup {ch}
    /\ unsubbed' = unsubbed \ {ch}
    /\ Disturb(ch)
    /\ UNCHANGED <<conn_vars, auth_vars, misc_vars, m_lastData, fresh, el_pc>>
    /\ UNCHANGED life_vars
    /\ UNCHANGED cred_vars

\* subscribe that records the channel only when its request could be sent
SubscribeMap_ifSent ==
    /\ ~aborted
    /\ fg_pc = "sub_map"
    /\ m_lastData' = IF fg_ret.err THEN m_lastData ELSE MapAssign(m_lastData, fg_arg, "")
    /\ fg_pc' = "ready"
    /\ fg_arg' = EmptyString
    /\ fresh' = fresh \cup {fg_arg}
    /\ Disturb(fg_arg)
    /\ UNCHANGED <<conn_vars, auth_vars, misc_vars, m_subscribedChannels, unsubbed,
                   fg_ret, closeSnap, el_pc>>
    /\ UNCHANGED life_vars
    /\ UNCHANGED cred_vars
    /\ UNCHANGED main_vars

\* webSocketClient::subscribe, line 162: m_lastData[channel] = ""
SubscribeMap ==
    /\ ~aborted
    /\ fg_pc = "sub_map"
    /\ m_lastData' = MapAssign(m_lastData, fg_arg, "")
    /\ fg_pc' = "ready"
    /\ fg_arg' = EmptyString
    /\ fresh' = fresh \cup {fg_arg}
    /\ Disturb(fg_arg)
    /\ UNCHANGED <<conn_vars, auth_vars, misc_vars, m_subscribedChannels, unsubbed,
                   fg_ret, closeSnap, el_pc>>
    /\ UNCHANGED life_vars
    /\ UNCHANGED cred_vars
    /\ UNCHANGED main_vars

\* webSocketClient::unsubscribe, lines 171-174: send the request, erase from the set
Unsubscribe(ch) ==
    /\ FgReady
    /\ fg_pc' = "unsub_map"
    /\ fg_arg' = ch
    /\ fg_ret' = Returned("unsubscribe", HandleError)
    /\ closeSnap' = None
    /\ m_subscribedChannels' = m_subscribedChannels \ {ch}
    /\ Disturb(ch)
    /\ UNCHANGED <<conn_vars, auth_vars, misc_vars, m_lastData, unsubbed, fresh, el_pc>>
    /\ UNCHANGED life_vars
    /\ UNCHANGED cred_vars

\* webSocketClient::unsubscribe, lines 175-177: m_lastData.erase(channel), return
UnsubscribeMap ==
    /\ ~aborted
    /\ fg_pc = "unsub_map"
    /\ m_lastData' = MapErase(m_lastData, fg_arg)
    /\ unsubbed' = unsubbed \cup {fg_arg}
    /\ fresh' = fresh \ {fg_arg}
    /\ fg_pc' = "ready"
    /\ fg_arg' = EmptyString
    /\ Disturb(fg_arg)
    /\ UNCHANGED <<conn_vars, auth_vars, misc_vars, m_subscribedChannels,
                   fg_ret, closeSnap, el_pc>>
    /\ UNCHANGED life_vars
    /\ UNCHANGED cred_vars
    /\ UNCHANGED main_vars

\* what close() is said to leave alone: connected flag, thread, auth state, token, map
SnapshotOf(connected, thread) ==
    [t |-> "snapshot", s |-> <<connected, thread, m_authenticated, m_accessToken, m_lastData>>]
Snapshot == SnapshotOf(m_connected, joinable)

\* close() returns: the record of the call, for a close() that directly follows a close()
CloseReturns(err, snap, after) ==
    [op |-> "close", err |-> err, second |-> snap # None,
     changed |-> snap # None /\ snap # after]

\* StopRequested when close() does not call m_endpoint.stop()
StopRequested_forgotten == stopped

\* the value of the io_service's stopped flag after m_endpoint.stop()
StopRequested == TRUE

\* webSocketClient::close, lines 99-107
CloseBegin ==
    /\ FgReady
    /\ LET snap == IF fg_ret.op = "close" THEN Snapshot ELSE None IN
       IF m_connected
       THEN IF HandleError
            THEN \* "Close error": return without stopping the loop
                 /\ fg_ret' = CloseReturns(TRUE, snap, Snapshot)
                 /\ closeSnap' = None
                 /\ UNCHANGED <<conn_vars, fg_pc>>
            ELSE /\ con_state' = "closing"
                 /\ m_connected' = FALSE
                 /\ fg_pc' = "close_stop"
                 /\ closeSnap' = snap
                 /\ UNCHANGED <<m_hdl, joinable, perpetual, stopped, fg_ret>>
       ELSE /\ fg_pc' = "close_stop"
            /\ closeSnap' = snap
            /\ UNCHANGED <<conn_vars, fg_ret>>
    /\ UNCHANGED <<auth_vars, sub_vars, el_vars, misc_vars, fg_arg>>
    /\ UNCHANGED life_vars
    /\ UNCHANGED cred_vars

\* webSocketClient::close, lines 108-111: stop_perpetual, stop, joinable?
CloseStop ==
    /\ ~aborted
    /\ fg_pc = "close_stop"
    /\ perpetual' = FALSE
    /\ stopped' = StopRequested
    /\ IF joinable
       THEN /\ fg_pc' = "close_join"
            /\ UNCHANGED <<fg_ret, closeSnap>>
       ELSE /\ fg_pc' = "ready"
            /\ fg_ret' = CloseReturns(FALSE, closeSnap, Snapshot)
            /\ closeSnap' = None
    /\ UNCHANGED <<m_connected, m_hdl, joinable, con_state, auth_vars, sub_vars,
                   el_vars, misc_vars, fg_arg>>
    /\ UNCHANGED life_vars
    /\ UNCHANGED cred_vars
    /\ UNCHANGED main_vars

\* webSocketClient::close, line 112: join() returns once run() has returned
CloseJoin ==
    /\ ~aborted
    /\ fg_pc = "close_join"
    /\ el_pc = "exited"
    /\ joinable' = FALSE
    /\ el_pc' = "none"
    /\ fg_pc' = "ready"
    /\ fg_ret' = CloseReturns(FALSE, closeSnap, SnapshotOf(m_connected, FALSE))
    /\ closeSnap' = None
    /\ UNCHANGED <<m_connected, m_hdl, con_state, perpetual, stopped, auth_vars,
                   sub_vars, el, misc_vars, fg_arg>>
    /\ UNCHANGED life_vars
    /\ UNCHANGED cred_vars
    /\ UNCHANGED main_vars

(* ------------------------------------------------------------------ *)
(* Event-loop thread: m_endpoint.run()                                 *)
(* ------------------------------------------------------------------ *)
\* ElIdle when a new thread's run() restarts a stopped io_service
ElIdle_restarted == ~aborted /\ el_pc = "idle"

\* the loop takes the next callback only while the io_service is not stopped
ElIdle == ~aborted /\ el_pc = "idle" /\ ~stopped

\* webSocketClient::on_open, lines 123-125
OnOpen ==
    /\ ElIdle
    /\ con_state = "connecting"
    /\ con_state' = "open"
    /\ m_hdl' = "con"
    /\ m_connected' = TRUE
    /\ el_pc' = "open_cb"
    /\ UNCHANGED <<joinable, perpetual, stopped, auth_vars, sub_vars, fg_vars, el, misc_vars>>
    /\ opened' = opened + 1
    /\ UNCHANGED <<onFailRan, callbackRuns>>
    /\ UNCHANGED cred_vars

\* the callback of dericonsole.cpp lines 58-61: build the request, pass it to send
AuthCallback(timeStamp, nonce) ==
    [authRequest |-> Authorize(captured.clientId, captured.clientSecret, timeStamp, nonce),
     hdl |-> m_hdl]

\* OnOpenCallback without the test of line 126
OnOpenCallback_unchecked(timeStamp, nonce) ==
    /\ ~aborted
    /\ el_pc = "open_cb"
    /\ el_pc' = "idle"
    /\ authRequests' = IF ~HandleError THEN authRequests + 1 ELSE authRequests
    /\ authCall' = IF captured # None THEN AuthCallback(timeStamp, nonce) ELSE authCall
    /\ UNCHANGED captured
    /\ UNCHANGED <<conn_vars, auth_vars, sub_vars, fg_vars, el,
                   m_authRequestCallback, m_waitingForResponse, aborted>>
    /\ callbackRuns' = callbackRuns + 1
    /\ UNCHANGED <<onFailRan, opened>>

\* webSocketClient::on_open, lines 126-128: the callback builds and sends the auth
\* request; timeStamp and nonce are what getTimeStamp() and getNonce() return
OnOpenCallback(timeStamp, nonce) ==
    /\ ~aborted
    /\ el_pc = "open_cb"
    /\ el_pc' = "idle"
    /\ authCall' = IF m_authRequestCallback THEN AuthCallback(timeStamp, nonce) ELSE authCall
    /\ UNCHANGED captured
    /\ authRequests' = IF m_authRequestCallback /\ ~HandleError
                       THEN authRequests + 1 ELSE authRequests
    /\ UNCHANGED <<conn_vars, auth_vars, sub_vars, fg_vars, el,
                   m_authRequestCallback, m_waitingForResponse, aborted>>
    /\ callbackRuns' = IF m_authRequestCallback THEN callbackRuns + 1 ELSE callbackRuns
    /\ UNCHANGED <<onFailRan, opened>>

\* on_fail with a call that stops the io_service added
OnFail_stopsLoop ==
    /\ ElIdle
    /\ con_state = "connecting"
    /\ con_state' = "failed"
    /\ m_connected' = FALSE
    /\ stopped' = TRUE
    /\ UNCHANGED <<m_hdl, joinable, perpetual, auth_vars, sub_vars, fg_vars,
                   el_vars, misc_vars>>
    /\ onFailRan' = TRUE
    /\ UNCHANGED <<opened, callbackRuns>>
    /\ UNCHANGED cred_vars

\* webSocketClient::on_fail
OnFail ==
    /\ ElIdle
    /\ con_state = "connecting"
    /\ con_state' = "failed"
    /\ m_connected' = FALSE
    /\ UNCHANGED <<m_hdl, joinable, perpetual, stopped, auth_vars, sub_vars, fg_vars,
                   el_vars, misc_vars>>
    /\ onFailRan' = TRUE
    /\ UNCHANGED <<opened, callbackRuns>>
    /\ UNCHANGED cred_vars

\* the remote closes or the transport drops: the library ends the session and
\* queues the close handler
TransportDown ==
    /\ ElIdle
    /\ con_state = "open"
    /\ con_state' = "closing"
    /\ UNCHANGED <<m_connected, m_hdl, joinable, perpetual, stopped, auth_vars, sub_vars,
                   fg_vars, el_vars, misc_vars>>
    /\ UNCHANGED life_vars
    /\ UNCHANGED cred_vars

\* on_close that also forgets the authentication
OnClose_resetsSession ==
    /\ ElIdle
    /\ con_state = "closing"
    /\ con_state' = "closed"
    /\ m_connected' = FALSE
    /\ m_authenticated' = FALSE
    /\ m_accessToken' = EmptyString
    /\ UNCHANGED <<m_hdl, joinable, perpetual, stopped, lastTokReply, lastStrTok, sub_vars,
                   fg_vars, el_vars, misc_vars>>
    /\ UNCHANGED life_vars
    /\ UNCHANGED cred_vars

\* webSocketClient::on_close
OnClose ==
    /\ ElIdle
    /\ con_state = "closing"
    /\ con_state' = "closed"
    /\ m_connected' = FALSE
    /\ UNCHANGED <<m_hdl, joinable, perpetual, stopped, auth_vars, sub_vars, fg_vars,
                   el_vars, misc_vars>>
    /\ UNCHANGED life_vars
    /\ UNCHANGED cred_vars

\* m_endpoint.run() returns once the io_service is stopped
ExitLoop ==
    /\ ~aborted
    /\ el_pc = "idle"
    /\ stopped
    /\ el_pc' = "exited"
    /\ UNCHANGED <<conn_vars, auth_vars, sub_vars, fg_vars, el, misc_vars>>
    /\ UNCHANGED life_vars
    /\ UNCHANGED cred_vars

(* ------------------------------------------------------------------ *)
(* webSocketClient::on_message                                         *)
(* ------------------------------------------------------------------ *)
\* lines 382-392: the channel name of a push, from params; without
\* params.channel the local stays the empty string and on_message goes on
ChannelOf(params) ==
    IF Contains(params, "channel")
    THEN LET c == At(params, "channel") IN
         IF c.t = "string" THEN [status |-> "ok", channel |-> c.v]
         ELSE IF c.t = "object" /\ Contains(c, "name")
         THEN IF ThrowsOnGetString(At(c, "name"))
              THEN [status |-> "threw", channel |-> EmptyString]
              ELSE [status |-> "ok", channel |-> At(c, "name").v]
         ELSE [status |-> "invalid", channel |-> EmptyString]
    ELSE [status |-> "absent", channel |-> EmptyString]

\* Forwardable with the boolean test left out of line 416
Forwardable_noBoolean(data) == data.t \in {"object", "array", "string", "number"}

\* lines 404, 410, 416: the payload shapes on_message compares and forwards
Forwardable(data) == data.t \in {"object", "array", "string", "number", "boolean"}

\* Differs against the baselines of every channel of the map: one shared cache
Differs_anyChannel(base, data) ==
    base # Dump(data) /\ \A c \in DOMAIN m_lastData : m_lastData[c] # Dump(data)

\* Differs with the comparison against the baseline lost
Differs_always(base, data) == TRUE

\* lines 406, 412, 418: m_lastData[channel] != data.dump()
Differs(base, data) == base # Dump(data)

\* Route with the balance test ahead of the access_token test
Route_balanceFirst(result) ==
    IF Contains(result, "balance") THEN "summary"
    ELSE IF Contains(result, "access_token") THEN "auth"
    ELSE IF Contains(result, "order") THEN "buy"
    ELSE IF Contains(result, "order_id") THEN "cancel"
    ELSE IF Contains(result, "bids") /\ Contains(result, "asks") THEN "orderBook"
    ELSE IF Contains(result, "order_id") THEN "modify"
    ELSE IF result.t = "array" THEN "positions"
    ELSE "none"

\* Route with the order_id test ahead of the order test
Route_cancelFirst(result) ==
    IF Contains(result, "access_token") THEN "auth"
    ELSE IF Contains(result, "balance") THEN "summary"
    ELSE IF Contains(result, "order_id") THEN "cancel"
    ELSE IF Contains(result, "order") THEN "buy"
    ELSE IF Contains(result, "bids") /\ Contains(result, "asks") THEN "orderBook"
    ELSE IF Contains(result, "order_id") THEN "modify"
    ELSE IF result.t = "array" THEN "positions"
    ELSE "none"

\* Route with the modify branch ahead of the cancel branch
Route_modifyFirst(result) ==
    IF Contains(result, "access_token") THEN "auth"
    ELSE IF Contains(result, "balance") THEN "summary"
    ELSE IF Contains(result, "order") THEN "buy"
    ELSE IF Contains(result, "order_id") /\ Contains(result, "time_in_force") THEN "modify"
    ELSE IF Contains(result, "order_id") THEN "cancel"
    ELSE IF Contains(result, "bids") /\ Contains(result, "asks") THEN "orderBook"
    ELSE IF result.t = "array" THEN "positions"
    ELSE "none"

\* Route that takes a result for an auth reply only when its token is a string
Route_stringTokenOnly(result) ==
    IF Contains(result, "access_token") /\ At(result, "access_token").t = "string" THEN "auth"
    ELSE IF Contains(result, "balance") THEN "summary"
    ELSE IF Contains(result, "order") THEN "buy"
    ELSE IF Contains(result, "order_id") THEN "cancel"
    ELSE IF Contains(result, "bids") /\ Contains(result, "asks") THEN "orderBook"
    ELSE IF Contains(result, "order_id") THEN "modify"
    ELSE IF result.t = "array" THEN "positions"
    ELSE "none"

\* lines 430-446: the branch of the reply chain a result takes
Route(result) ==
    IF Contains(result, "access_token") THEN "auth"
    ELSE IF Contains(result, "balance") THEN "summary"
    ELSE IF Contains(result, "order") THEN "buy"
    ELSE IF Contains(result, "order_id") THEN "cancel"
    ELSE IF Contains(result, "bids") /\ Contains(result, "asks") THEN "orderBook"
    ELSE IF Contains(result, "order_id") THEN "modify"
    ELSE IF result.t = "array" THEN "positions"
    ELSE "none"

\* the argument a reply handler is called with
HandlerArg(result) == IF Route(result) = "buy" THEN At(result, "order") ELSE result

\* handleSubscriptionMessage with the ticker branch printing every payload
HandleSubscriptionMessage_tickerAny(channel, data) ==
    IF Find(channel, "ticker")
    THEN [category |-> "ticker", accepted |-> TRUE]
    ELSE IF Find(channel, "trades")
    THEN [category |-> "trades", accepted |-> data.t = "array"]
    ELSE IF Find(channel, "book")
    THEN [category |-> "book", accepted |-> data.t = "object"]
    ELSE [category |-> "generic", accepted |-> TRUE]

\* handleSubscriptionMessage with the test for "book" moved in front of the others
HandleSubscriptionMessage_bookFirst(channel, data) ==
    IF Find(channel, "book")
    THEN [category |-> "book", accepted |-> data.t = "object"]
    ELSE IF Find(channel, "ticker")
    THEN [category |-> "ticker",
          accepted |-> data.t \in {"object", "number", "string", "boolean"}]
    ELSE IF Find(channel, "trades")
    THEN [category |-> "trades", accepted |-> data.t = "array"]
    ELSE [category |-> "generic", accepted |-> TRUE]

\* webSocketClient::handleSubscriptionMessage: the category and whether it prints the update
HandleSubscriptionMessage(channel, data) ==
    IF Find(channel, "ticker")
    THEN [category |-> "ticker",
          accepted |-> data.t \in {"object", "number", "string", "boolean"}]
    ELSE IF Find(channel, "trades")
    THEN [category |-> "trades", accepted |-> data.t = "array"]
    ELSE IF Find(channel, "book")
    THEN [category |-> "book", accepted |-> data.t = "object"]
    ELSE [category |-> "generic", accepted |-> TRUE]

NoForward == [category |-> "none", accepted |-> FALSE]

\* locals of an on_message call that handles a push
\* (named: params.channel gave the name; present: the channel is a key when the
\* call looks it up; base: the baseline
\* found at line 394; first: no push was taken up since the channel's subscribe;
\* stored: the serialization assigned, "" if none)
PushLocals(channel, named, data, found, outcome) ==
    [kind |-> "push", channel |-> channel, named |-> named, data |-> data, found |-> found,
     present |-> channel \in DOMAIN m_lastData,
     base |-> IF found /\ channel \in DOMAIN m_lastData THEN m_lastData[channel] ELSE "",
     late |-> channel \in unsubbed, first |-> found /\ channel \in fresh,
     disturbed |-> FALSE, wrote |-> FALSE, stored |-> "",
     fwd |-> FALSE, forward |-> NoForward, outcome |-> outcome]

\* locals of an on_message call that handles anything else
\* (error: response["error"] when line 448 is reached; notice: the text it prints)
ReplyLocals(result, handler, outcome) ==
    [kind |-> "reply", result |-> result, handler |-> handler,
     arg |-> IF handler = "none" THEN None ELSE HandlerArg(result),
     error |-> None, notice |-> EmptyString, outcome |-> outcome]

\* line 448: response["error"].value("message", "Unknown error") throws a type_error
\* on an error that is not an object and on a message that is not a string
ErrorThrows(e) ==
    e.t # "object" \/ (Contains(e, "message") /\ ThrowsOnGetString(At(e, "message")))

\* ErrorText with the default left out: the text is empty without a message
ErrorText_noDefault(e) == IF Contains(e, "message") THEN At(e, "message").v ELSE EmptyString

\* line 448: the text value("message", "Unknown error") returns
ErrorText(e) == IF Contains(e, "message") THEN At(e, "message").v ELSE <<"Unknown error">>

\* AssignedToken when the assignment has not taken effect before the flag is set
AssignedToken_notYet(result) == m_accessToken

\* line 431: m_accessToken after m_accessToken = response["result"]["access_token"]
AssignedToken(result) == At(result, "access_token").v

\* on_message up to its first access to shared state (lines 378-397, 429-431, 447-448)
OnMessage(msg) ==
    /\ ElIdle
    /\ con_state = "open"
    /\ IF msg = Malformed
       THEN \* json::parse throws
            /\ el' = ReplyLocals(None, "none", "threw")
            /\ el_pc' = "ret"
            /\ UNCHANGED m_accessToken
       ELSE IF Contains(msg, "method") /\ EqualsText(At(msg, "method"), <<"subscription">>)
       THEN /\ UNCHANGED m_accessToken
            /\ IF Contains(msg, "params") /\ At(msg, "params").t = "object"
               THEN LET params == At(msg, "params")
                        c == ChannelOf(params)
                        data == IF Contains(params, "data") THEN At(params, "data") ELSE None
                        named == c.status = "ok"
                    IN  IF c.status \in {"invalid", "threw"}
                        THEN /\ el' = PushLocals(c.channel, FALSE, data, FALSE, c.status)
                             /\ el_pc' = "ret"
                        ELSE IF ~MapFind(m_lastData, c.channel)
                        THEN /\ el' = PushLocals(c.channel, named, data, FALSE, "unsubscribed")
                             /\ el_pc' = "ret"
                        ELSE /\ el' = PushLocals(c.channel, named, data, TRUE, "pending")
                             /\ el_pc' = "cmp"
               ELSE /\ el' = ReplyLocals(None, "none", "ignored")
                    /\ el_pc' = "ret"
       ELSE IF Contains(msg, "result")
       THEN LET result == At(msg, "result") IN
            IF Route(result) = "auth"
            THEN IF ThrowsOnGetString(At(result, "access_token"))
                 THEN /\ el' = ReplyLocals(result, "none", "threw")
                      /\ el_pc' = "ret"
                      /\ UNCHANGED m_accessToken
                 ELSE /\ m_accessToken' = AssignedToken(result)
                      /\ el' = ReplyLocals(result, "none", "pending")
                      /\ el_pc' = "auth_flag"
            ELSE /\ el' = ReplyLocals(result, Route(result), "handled")
                 /\ el_pc' = "ret"
                 /\ UNCHANGED m_accessToken
       ELSE IF Contains(msg, "error")
       THEN /\ el' = LET e == At(msg, "error") IN
                     IF ErrorThrows(e)
                     THEN [ReplyLocals(None, "none", "threw") EXCEPT !.error = e]
                     ELSE [ReplyLocals(None, "none", "error") EXCEPT
                             !.error = e, !.notice = ErrorText(e)]
            /\ el_pc' = "ret"
            /\ UNCHANGED m_accessToken
       ELSE /\ el' = ReplyLocals(None, "none", "ignored")
            /\ el_pc' = "ret"
            /\ UNCHANGED m_accessToken
    /\ fresh' = IF el'.kind = "push" /\ el'.found THEN fresh \ {el'.channel} ELSE fresh
    /\ UNCHANGED <<conn_vars, m_authenticated, lastTokReply, lastStrTok, m_lastData,
                   m_subscribedChannels, prevPush, unsubbed, fg_vars, misc_vars>>
    /\ UNCHANGED life_vars
    /\ UNCHANGED cred_vars

\* lines 432-433: on_message_auth(result); m_authenticated = true
OnMessageAuth ==
    /\ ~aborted
    /\ el_pc = "auth_flag"
    /\ m_authenticated' = TRUE
    /\ el' = ReplyLocals(el.result, "auth", "handled")
    /\ el_pc' = "ret"
    /\ UNCHANGED <<conn_vars, m_accessToken, lastTokReply, lastStrTok, sub_vars,
                   fg_vars, misc_vars>>
    /\ UNCHANGED life_vars
    /\ UNCHANGED cred_vars

\* lines 400-406 (412, 418): the data field, its type, the comparison with the baseline
OnMessageCompare ==
    /\ ~aborted
    /\ el_pc = "cmp"
    /\ IF el.data = None
       THEN /\ el' = [el EXCEPT !.outcome = "nodata"]
            /\ el_pc' = "ret"
            /\ UNCHANGED m_lastData
       ELSE IF ~Forwardable(el.data)
       THEN /\ el' = [el EXCEPT !.outcome = "unexpected"]
            /\ el_pc' = "ret"
            /\ UNCHANGED m_lastData
       ELSE LET m == MapIndex(m_lastData, el.channel) IN
            /\ m_lastData' = m
            /\ IF Differs(m[el.channel], el.data)
               THEN /\ el' = [el EXCEPT !.wrote = (m # m_lastData)]
                    /\ el_pc' = "assign"
               ELSE /\ el' = [el EXCEPT !.wrote = (m # m_lastData), !.outcome = "duplicate"]
                    /\ el_pc' = "ret"
    /\ UNCHANGED <<conn_vars, auth_vars, m_subscribedChannels, prevPush, unsubbed,
                   fresh, fg_vars, misc_vars>>
    /\ UNCHANGED life_vars
    /\ UNCHANGED cred_vars

\* lines 407-408 (413-414, 419-420): store the serialization, call handleSubscriptionMessage
OnMessageForward ==
    /\ ~aborted
    /\ el_pc = "assign"
    /\ m_lastData' = MapAssign(m_lastData, el.channel, Dump(el.data))
    /\ el' = [el EXCEPT !.wrote = TRUE, !.stored = Dump(el.data), !.fwd = TRUE,
                        !.outcome = "forwarded",
                        !.forward = HandleSubscriptionMessage(el.channel, el.data)]
    /\ el_pc' = "ret"
    /\ UNCHANGED <<conn_vars, auth_vars, m_subscribedChannels, prevPush, unsubbed,
                   fresh, fg_vars, misc_vars>>
    /\ UNCHANGED life_vars
    /\ UNCHANGED cred_vars

\* the message handled was a reply whose result contains access_token
CarriesToken(l) == l.kind = "reply" /\ l.result # None /\ Contains(l.result, "access_token")

\* the message handled was a reply: it carried result, or an error object
IsReply(l) == l.kind = "reply" /\ (l.result # None \/ l.outcome = "error")

\* on_message that forgets the token when it returns from a reply without one
OnMessageReturn_forgetsToken ==
    /\ ~aborted
    /\ el_pc = "ret"
    /\ prevPush' = IF el.kind = "push" /\ el.found
                   THEN IF el.disturbed THEN None
                        ELSE [channel |-> el.channel, data |-> el.data, fwd |-> el.fwd]
                   ELSE prevPush
    /\ lastTokReply' = IF CarriesToken(el) THEN At(el.result, "access_token")
                       ELSE lastTokReply
    /\ lastStrTok' = IF CarriesToken(el) /\ At(el.result, "access_token").t = "string"
                     THEN At(el.result, "access_token") ELSE lastStrTok
    /\ outstanding' = IF IsReply(el) THEN FALSE ELSE outstanding
    /\ m_accessToken' = IF el.kind = "reply" /\ ~CarriesToken(el) THEN EmptyString
                        ELSE m_accessToken
    /\ el' = NoLocals
    /\ el_pc' = "idle"
    /\ UNCHANGED <<conn_vars, m_authenticated, m_lastData,
                   m_subscribedChannels, unsubbed, fresh, fg_pc, fg_arg, fg_ret, closeSnap,
                   main_pc, choice, misc_vars>>
    /\ UNCHANGED life_vars
    /\ UNCHANGED cred_vars

\* on_message returns; its locals go out of scope
OnMessageReturn ==
    /\ ~aborted
    /\ el_pc = "ret"
    /\ prevPush' = IF el.kind = "push" /\ el.found
                   THEN IF el.disturbed THEN None
                        ELSE [channel |-> el.channel, data |-> el.data, fwd |-> el.fwd]
                   ELSE prevPush
    /\ lastTokReply' = IF CarriesToken(el) THEN At(el.result, "access_token")
                       ELSE lastTokReply
    /\ lastStrTok' = IF CarriesToken(el) /\ At(el.result, "access_token").t = "string"
                     THEN At(el.result, "access_token") ELSE lastStrTok
    /\ outstanding' = IF IsReply(el) THEN FALSE ELSE outstanding
    /\ el' = NoLocals
    /\ el_pc' = "idle"
    /\ UNCHANGED <<conn_vars, m_authenticated, m_accessToken, m_lastData,
                   m_subscribedChannels, unsubbed, fresh, fg_pc, fg_arg, fg_ret, closeSnap,
                   main_pc, choice, misc_vars>>
    /\ UNCHANGED life_vars
    /\ UNCHANGED cred_vars

(* ------------------------------------------------------------------ *)
(* main(): the menu loop of dericonsole.cpp                            *)
(* ------------------------------------------------------------------ *)
\* the choices that send a request (cases 2 to 7)
RequestChoices == 2..7

\* the choices that are no case from 1 to 9: Exit, and the numbers of the default
\* branch (0 is also what a failed read leaves in choice)
LeavingChoices == {0, 10, 11}

\* case 1, line 58: register the callback that sends the auth request
MenuAuthorize ==
    /\ main_pc = "menu"
    /\ SetAuthRequestCallback(SessionId, SessionSecret)
    /\ choice' = 1
    /\ main_pc' = "connect"
    /\ UNCHANGED outstanding

\* case 1, lines 62-63: connect to the fixed uri; get_connection may report an error
MainConnect ==
    /\ main_pc = "connect"
    /\ \E uriOk \in BOOLEAN : Connect(uriOk)
    /\ main_pc' = "auth_wait"
    /\ UNCHANGED <<outstanding, choice>>

\* PollAuthenticated with a wait that gives up when the connection has failed
PollAuthenticated_givesUp ==
    /\ FgReady
    /\ main_pc = "auth_wait"
    /\ main_pc' = IF m_authenticated \/ onFailRan THEN "menu" ELSE "auth_wait"
    /\ UNCHANGED <<conn_vars, auth_vars, sub_vars, el_vars, misc_vars, life_vars,
                   cred_vars, fg_pc, fg_arg, fg_ret, closeSnap, outstanding, choice>>

\* case 1, lines 66-69: while (!client.isAuthenticated()) sleep
PollAuthenticated ==
    /\ FgReady
    /\ main_pc = "auth_wait"
    /\ main_pc' = IF m_authenticated THEN "menu" ELSE "auth_wait"
    /\ UNCHANGED <<conn_vars, auth_vars, sub_vars, el_vars, misc_vars, life_vars,
                   cred_vars, fg_pc, fg_arg, fg_ret, closeSnap, outstanding, choice>>

\* cases 2 to 7: build the request and send it
MenuRequest(c) ==
    /\ main_pc = "menu"
    /\ choice' = c
    /\ Send
    /\ main_pc' = "rpc_wait"
    /\ outstanding' = ~fg_ret'.err

\* cases 2 to 7: while (client.isWaitingForResponse()) sleep
PollWaiting ==
    /\ FgReady
    /\ main_pc = "rpc_wait"
    /\ main_pc' = IF m_waitingForResponse THEN "rpc_wait" ELSE "menu"
    /\ UNCHANGED <<conn_vars, auth_vars, sub_vars, el_vars, misc_vars, life_vars,
                   cred_vars, fg_pc, fg_arg, fg_ret, closeSnap, outstanding, choice>>

\* case 8
MenuSubscribe(ch) ==
    /\ main_pc = "menu"
    /\ choice' = 8
    /\ Subscribe(ch)
    /\ UNCHANGED <<main_pc, outstanding>>

\* case 9
MenuUnsubscribe(ch) ==
    /\ main_pc = "menu"
    /\ choice' = 9
    /\ Unsubscribe(ch)
    /\ UNCHANGED <<main_pc, outstanding>>

\* case 10 and default, lines 197-207: a choice outside 1..9 prints its line,
\* fails the loop condition of line 204, and client.close() is called
MenuLeave(c) ==
    /\ main_pc = "menu"
    /\ choice' = c
    /\ CloseBegin
    /\ main_pc' = "closing"
    /\ UNCHANGED outstanding

\* line 208: return 0 destroys client. ~webSocketClient stops the perpetual
\* loop; its close() can only report "Close error" again (m_connected is still
\* true only after that path); destroying a joinable std::thread calls
\* std::terminate
MainReturn ==
    /\ FgReady
    /\ main_pc = "closing"
    /\ main_pc' = "done"
    /\ perpetual' = FALSE
    /\ aborted' = joinable
    /\ UNCHANGED <<m_connected, m_hdl, joinable, con_state, stopped, auth_vars, sub_vars,
                   el_vars, m_authRequestCallback, m_waitingForResponse, authRequests,
                   life_vars, cred_vars, fg_pc, fg_arg, fg_ret, closeSnap, outstanding, choice>>

\* the foreground thread running main()
Main(chans) ==
    \/ MenuAuthorize
    \/ MainConnect
    \/ PollAuthenticated
    \/ \E c \in RequestChoices : MenuRequest(c)
    \/ PollWaiting
    \/ \E ch \in chans : MenuSubscribe(ch)
    \/ SubscribeMap
    \/ \E ch \in chans : MenuUnsubscribe(ch)
    \/ UnsubscribeMap
    \/ \E c \in LeavingChoices : MenuLeave(c)
    \/ CloseStop
    \/ CloseJoin
    \/ MainReturn

(* ------------------------------------------------------------------ *)
(* Specification                                                       *)
(* ------------------------------------------------------------------ *)
\* a caller that may issue any operation when the previous one has returned
Foreground(chans) ==
    \/ SetAuthRequestCallback(SessionId, SessionSecret) /\ UNCHANGED main_vars
    \/ Send /\ UNCHANGED main_vars
    \/ \E uriOk \in BOOLEAN : Connect(uriOk) /\ UNCHANGED main_vars
    \/ \E ch \in chans : Subscribe(ch) /\ UNCHANGED main_vars
    \/ SubscribeMap
    \/ \E ch \in chans : Unsubscribe(ch) /\ UNCHANGED main_vars
    \/ UnsubscribeMap
    \/ CloseBegin /\ UNCHANGED main_vars
    \/ CloseStop
    \/ CloseJoin

EventLoop(msgs) ==
    \/ OnOpen
    \/ OnOpenCallback(SessionTime, SessionNonce)
    \/ OnFail
    \/ TransportDown
    \/ OnClose
    \/ \E msg \in msgs : OnMessage(msg)
    \/ OnMessageAuth
    \/ OnMessageCompare
    \/ OnMessageForward
    \/ OnMessageReturn
    \/ ExitLoop

\* the channel of the session
Subscribed == { Ticker }

\* one foreground caller, the event-loop thread, every form of inbound message
Next == Foreground(Subscribed) \/ EventLoop(Inbound(Subscribed))

Spec == Init /\ [][Next]_vars

\* the same session with plain traffic
NextSession == Foreground(Subscribed) \/ EventLoop(SessionInbound(Subscribed))

\* both threads are scheduled: the event-loop thread keeps taking the steps it
\* has, and a foreground caller inside close() goes on to its next statement
FairSpec ==
    /\ Init /\ [][NextSession]_vars
    /\ WF_vars(EventLoop(SessionInbound(Subscribed)))
    /\ WF_vars(CloseStop)
    /\ WF_vars(CloseJoin)

\* the menu program and the event-loop thread, every form of inbound message
NextMain == Main(Subscribed) \/ EventLoop(Inbound(Subscribed))

MainSpec == Init /\ [][NextMain]_vars

\* a caller that connects once and then subscribes
RegistryCaller ==
    \/ Connect(TRUE) /\ ~joinable /\ UNCHANGED main_vars
    \/ \E ch \in RegistryChannels :
          /\ Cardinality(m_subscribedChannels \cup DOMAIN m_lastData \cup {ch})
                <= MaxSubscriptions
          /\ Subscribe(ch)
          /\ UNCHANGED main_vars
    \/ SubscribeMap

\* the event-loop thread while the connection stays open
RegistryLoop ==
    \/ OnOpen
    \/ OnOpenCallback(SessionTime, SessionNonce)
    \/ \E msg \in RegistryInbound : OnMessage(msg)
    \/ OnMessageCompare
    \/ OnMessageForward
    \/ OnMessageReturn

\* the subscription registry on an open connection: channels of every category
NextRegistry == RegistryCaller \/ RegistryLoop

RegistrySpec == Init /\ [][NextRegistry]_vars

\* two channels subscribed at the same time, and the payloads pushed on them
DedupChannels == { Ticker, <<"book", ".BTC">> }
DedupPayloads == { ObjPayload, JNum(7) }
DedupInbound == { Push(JStr(c), d) : c \in DedupChannels, d \in DedupPayloads }

\* a caller that connects once, subscribes and unsubscribes
DedupCaller ==
    \/ Connect(TRUE) /\ ~joinable /\ UNCHANGED main_vars
    \/ \E ch \in DedupChannels : Subscribe(ch) /\ UNCHANGED main_vars
    \/ SubscribeMap
    \/ \E ch \in DedupChannels : Unsubscribe(ch) /\ UNCHANGED main_vars
    \/ UnsubscribeMap

\* the event-loop thread while the connection stays open
DedupLoop ==
    \/ OnOpen
    \/ OnOpenCallback(SessionTime, SessionNonce)
    \/ \E msg \in DedupInbound : OnMessage(msg)
    \/ OnMessageCompare
    \/ OnMessageForward
    \/ OnMessageReturn

\* pushes of the same payloads on two channels of an open connection
NextDedup == DedupCaller \/ DedupLoop

DedupSpec == Init /\ [][NextDedup]_vars

\* a caller that registers the callback with any credentials, connects and closes
AuthCaller ==
    \/ \E id \in ClientIds, secret \in ClientSecrets :
          SetAuthRequestCallback(id, secret) /\ UNCHANGED main_vars
    \/ \E uriOk \in BOOLEAN : Connect(uriOk) /\ UNCHANGED main_vars
    \/ CloseBegin /\ UNCHANGED main_vars
    \/ CloseStop
    \/ CloseJoin

\* the event-loop thread up to the auth request, at any time and with any nonce
AuthLoop ==
    \/ OnOpen
    \/ \E timeStamp \in TimeStamps, nonce \in Nonces : OnOpenCallback(timeStamp, nonce)
    \/ OnFail
    \/ TransportDown
    \/ OnClose
    \/ ExitLoop

\* the authorization request: every credential, timestamp and nonce
NextAuth == AuthCaller \/ AuthLoop

AuthSpec == Init /\ [][NextAuth]_vars

(* ------------------------------------------------------------------ *)
(* Claims                                                              *)
(* ------------------------------------------------------------------ *)
\* on_message is not in the middle of a message
InboundQuiet == el_pc \notin {"cmp", "assign", "auth_flag", "ret"}

\* on_message has finished with a message and is about to return
AtReturn == el_pc = "ret"

\* C1 as stated: isAuthenticated() is true iff a reply whose result contains
\* access_token has been handled, and getAccessToken() is the access_token of the
\* most recent such reply.
C1_AuthGatingAnyToken ==
    InboundQuiet =>
        /\ m_authenticated <=> lastTokReply # None
        /\ lastTokReply # None => JStr(m_accessToken) = lastTokReply

\* C1 amended: isAuthenticated() is true iff a reply whose result.access_token is a
\* string has been handled, and getAccessToken() is the token of the most recent
\* such reply; a reply whose access_token is not a string changes neither.
C1_AuthGating ==
    InboundQuiet =>
        /\ m_authenticated <=> lastStrTok # None
        /\ lastStrTok # None => JStr(m_accessToken) = lastStrTok

\* C1 witness: a second auth reply has overwritten the token of the first
C1_Witness ==
    /\ InboundQuiet
    /\ m_authenticated
    /\ lastStrTok = JStr(<<"tok", "2">>)
    /\ lastTokReply = JNum(5)
    /\ m_accessToken = <<"tok", "2">>

\* the handler C2 names for a result: the first match in the claim's order
FirstMatch(result) ==
    IF Contains(result, "access_token") THEN "auth"
    ELSE IF Contains(result, "balance") THEN "summary"
    ELSE IF Contains(result, "order") THEN "buy"
    ELSE IF Contains(result, "order_id") THEN "cancel"
    ELSE IF Contains(result, "bids") /\ Contains(result, "asks") THEN "orderBook"
    ELSE IF result.t = "array" THEN "positions"
    ELSE "none"

\* the reply on_message has just handled carried this result
RepliedWith(result) == AtReturn /\ el.kind = "reply" /\ el.result = result

HandledReply == AtReturn /\ el.kind = "reply" /\ el.result # None

\* C2 as stated: a message with result invokes the handler of the first match in
\* the order auth, summary, buy (with result.order), cancel, order book,
\* positions, and none otherwise.
C2_RoutingAnyToken ==
    HandledReply =>
        /\ el.handler = FirstMatch(el.result)
        /\ el.handler = "buy" => el.arg = At(el.result, "order")

\* C2 amended: as stated, except that a result whose access_token is not a string
\* invokes no handler (the message is dropped as a parse error).
C2_Routing ==
    HandledReply =>
        /\ el.handler =
             IF FirstMatch(el.result) = "auth"
                /\ At(el.result, "access_token").t # "string"
             THEN "none" ELSE FirstMatch(el.result)
        /\ el.handler = "buy" => el.arg = At(el.result, "order")

\* C2 witness: a result with both order and order_id went to the buy handler
C2_Witness ==
    /\ RepliedWith(PlainResult({"order", "order_id"}))
    /\ el.handler = "buy"
    /\ el.arg = AnOrder

\* C3: a reply whose result contains order_id and none of access_token, balance,
\* order goes to the cancel handler, and on_message_modify is never invoked.
C3_ModifyUnreachable ==
    /\ el.kind = "reply" => el.handler # "modify"
    /\ (HandledReply /\ Contains(el.result, "order_id")
          /\ ~Contains(el.result, "access_token") /\ ~Contains(el.result, "balance")
          /\ ~Contains(el.result, "order"))
       => el.handler = "cancel"

\* C3 witness: the reply to a modify request has been given to the cancel handler
C3_Witness ==
    /\ RepliedWith(PlainResult({"order_id", "time_in_force"}))
    /\ el.handler = "cancel"

\* the push on_message has just handled, for a channel it found in the map
HandledPush == AtReturn /\ el.kind = "push" /\ el.found

\* the push just handled repeats the payload of the previous push for its channel,
\* with no subscribe or unsubscribe of the channel since that push began
RepeatedPush ==
    /\ AtReturn /\ el.kind = "push" /\ el.data # None /\ ~el.disturbed
    /\ prevPush # None /\ prevPush.channel = el.channel /\ prevPush.data = el.data

Count(b) == IF b THEN 1 ELSE 0

\* C4 as stated: two consecutive pushes with the same payload cause exactly one
\* invocation of handleSubscriptionMessage, and the second changes no state.
C4_ExactlyOneForward ==
    RepeatedPush => Count(prevPush.fwd) + Count(el.fwd) = 1 /\ ~el.wrote

\* C4 amended: two consecutive pushes with the same payload cause at most one
\* invocation of handleSubscriptionMessage (none when the payload is null or
\* already equals the stored baseline); the second push is never forwarded and
\* changes no state.
C4_DedupIdempotence ==
    RepeatedPush => ~el.fwd /\ ~el.wrote /\ el.found /\ m_lastData[el.channel] = el.base

\* C4 witness: the first of two equal pushes was forwarded, the second dropped
C4_Witness ==
    /\ RepeatedPush
    /\ prevPush.fwd
    /\ el.outcome = "duplicate"
    /\ el.data = ObjPayload

\* the push just handled carried a payload whose serialization differs from the
\* baseline stored for its channel
DifferentPush == HandledPush /\ el.data # None /\ el.base # Dump(el.data)

\* C5 as stated: a push whose payload differs from the stored baseline is
\* forwarded and its serialization becomes the baseline, for every payload shape.
C5_ForwardEveryShape ==
    DifferentPush =>
        /\ el.fwd /\ el.stored = Dump(el.data)
        /\ ~el.disturbed => m_lastData[el.channel] = Dump(el.data)

\* C5 amended: the same for every payload shape except null; a null payload is
\* reported as unexpected, is not forwarded and leaves the baseline unchanged.
C5_ForwardNonNull ==
    DifferentPush =>
        IF el.data.t # "null"
        THEN /\ el.fwd /\ el.stored = Dump(el.data) /\ el.forward.category # "none"
             /\ ~el.disturbed => m_lastData[el.channel] = Dump(el.data)
        ELSE /\ ~el.fwd /\ ~el.wrote
             /\ ~el.disturbed => m_lastData[el.channel] = el.base

\* C5 witness: a boolean payload replaced an earlier object baseline
C5_Witness ==
    /\ DifferentPush
    /\ el.data = JBool(TRUE)
    /\ el.base = Dump(ObjPayload)
    /\ el.fwd
    /\ m_lastData[el.channel] = "true"

\* C6: a push that arrives for a channel after unsubscribe(c) has returned, and
\* before the next subscribe(c), is dropped: no handler runs, the map is not written.
C6_UnsubscribeFinality ==
    (el.kind = "push" /\ el.late) => ~el.found /\ ~el.fwd /\ ~el.wrote

\* C7: once an unsubscribe(c) and the handling of a push for c have both
\* finished, c is absent from m_lastData.
C7_UnsubscribeRace ==
    \A c \in unsubbed :
        (fg_pc = "ready" /\ ~(el.kind = "push" /\ el.channel = c))
            => c \notin DOMAIN m_lastData

\* C8: when close() has returned the event loop is stopped and its thread joined.
C8_CloseStopsAndJoins ==
    (fg_pc = "ready" /\ fg_ret.op = "close") => stopped /\ ~joinable /\ el_pc = "none"

\* C9: a close() that directly follows a close() reports no error and changes
\* none of connected flag, thread, auth state, token, subscription map.
C9_CloseIdempotent ==
    (fg_ret.op = "close" /\ fg_ret.second) => ~fg_ret.err /\ ~fg_ret.changed

\* the foreground thread is inside close(), past the graceful close
InClose == fg_pc \in {"close_stop", "close_join"}

\* C10: a call to close() eventually returns, whatever the state it is called in.
C10_CloseTerminates == InClose ~> (fg_pc = "ready" /\ fg_ret.op = "close")

\* C10 witness: close() called on a Failed connection has joined the thread
C10_Witness ==
    /\ fg_pc = "ready" /\ fg_ret.op = "close" /\ ~fg_ret.err
    /\ con_state = "failed" /\ stopped /\ ~joinable /\ el_pc = "none"

\* the edges of the connection state machine
LifecycleEdges ==
    { <<"idle", "connecting">>, <<"connecting", "open">>, <<"open", "closing">>,
      <<"closing", "closed">>, <<"connecting", "failed">>, <<"open", "failed">> }

C12_SetupErrorIsInert ==
    /\ [](con_state = "idle" => ~m_connected /\ ~joinable /\ el_pc = "none")
    /\ [][(fg_ret' # fg_ret /\ fg_ret'.op = "connect" /\ fg_ret'.err) =>
             UNCHANGED <<conn_vars, auth_vars, sub_vars, el_vars, misc_vars, life_vars>>]_vars

\* C12 witness: connect(uri) has failed on a client with a subscription and is
\* still Idle
C12_Witness ==
    /\ fg_pc = "ready" /\ fg_ret = Returned("connect", TRUE)
    /\ con_state = "idle" /\ ~m_connected /\ ~joinable /\ el_pc = "none"
    /\ Ticker \in DOMAIN m_lastData

\* C13: the auth-request callback is invoked only inside on_open, after on_open has
\* set the connected flag, exactly once for an on_open that finds a callback
\* registered and not at all for one that finds none; it is never invoked more
\* often than connections have opened, so not for a connection that failed.
C13_CallbackOncePerOpen ==
    /\ [](callbackRuns <= opened /\ (opened = 0 => authRequests = 0))
    /\ [][opened' # opened => (m_connected' /\ el_pc' = "open_cb" /\ callbackRuns' = callbackRuns)]_vars
    /\ [][callbackRuns' # callbackRuns => (el_pc = "open_cb" /\ m_authRequestCallback)]_vars
    /\ [][(el_pc = "open_cb" /\ el_pc' # "open_cb") =>
             callbackRuns' = callbackRuns + Count(m_authRequestCallback)]_vars

\* C13 witness: the connection has opened and the callback has sent one auth request
C13_Witness ==
    /\ opened = 1 /\ callbackRuns = 1 /\ authRequests = 1
    /\ el_pc = "idle" /\ m_connected /\ con_state = "open"

\* C14: isWaitingForResponse() is true exactly while a request sent from the menu
\* has had no reply handled.
C14_PendingFlag == InboundQuiet => (m_waitingForResponse <=> outstanding)

\* C15: the foreground thread is not back at the menu prompt while a request it
\* sent has had no reply handled.
C15_WaitsForReply == (main_pc = "menu" /\ fg_pc = "ready") => ~outstanding

\* a reply whose result contains access_token has been handled, or is being handled
TokenReplySeen == lastTokReply # None \/ CarriesToken(el)

\* C16: after menu choice 1 the foreground thread leaves the isAuthenticated()
\* polling loop only if a reply with result.access_token has been handled; until
\* then it is in case 1 and has not reached close(), whatever happens to the
\* connection.
C16_AuthWaitUnbounded ==
    /\ []((m_authRequestCallback /\ ~TokenReplySeen) => main_pc \in {"connect", "auth_wait"})
    /\ [][(main_pc = "auth_wait" /\ main_pc' # "auth_wait") => TokenReplySeen]_vars

\* C16 witness: the connection has failed and the foreground thread is polling
C16_Witness ==
    /\ main_pc = "auth_wait" /\ fg_pc = "ready" /\ ~aborted
    /\ fg_ret = Returned("connect", FALSE)
    /\ onFailRan /\ con_state = "failed" /\ ~m_authenticated /\ el_pc = "idle"

\* C17: the connected flag, the access token, the authenticated flag, the
\* pending-response flag and the subscription map change only on steps of the
\* event-loop thread, never on a step of a foreground operation.
C17_ThreadConfinement ==
    [][<<m_connected, m_accessToken, m_authenticated, m_waitingForResponse, m_lastData>>'
         # <<m_connected, m_accessToken, m_authenticated, m_waitingForResponse, m_lastData>>
       => UNCHANGED <<fg_pc, fg_arg, fg_ret, closeSnap, main_pc>>]_vars

\* C18: send(bytes) while the socket is not Open reports the error and returns
\* normally; the connection, the connected flag, auth state, token, pending flag
\* and map are unchanged.
C18_SendErrorIsInert ==
    [][(fg_ret' # fg_ret /\ fg_ret'.op = "send" /\ con_state # "open") =>
         /\ fg_ret'.err /\ fg_pc' = "ready" /\ ~aborted'
         /\ UNCHANGED <<conn_vars, auth_vars, sub_vars, el_vars, misc_vars, life_vars>>]_vars

\* C18 witness: send() has reported an error on a connection that was open and
\* has been closed by the remote, with the session still authenticated
C18_Witness ==
    /\ fg_pc = "ready" /\ fg_ret = Returned("send", TRUE) /\ ~aborted
    /\ con_state = "closed" /\ ~m_connected /\ m_authenticated
    /\ m_accessToken = <<"tok", "1">>

\* the push just handled was the first taken up since subscribe(c) returned,
\* carried data on_message forwards, and no subscribe or unsubscribe of c ran
\* while it was handled
FirstPushAfterSubscribe ==
    /\ AtReturn /\ el.kind = "push" /\ el.found /\ el.first /\ ~el.disturbed
    /\ el.data # None /\ Forwardable(el.data)

\* C19: subscribe(c) leaves the map with c -> "", and the first push with valid
\* data taken up after subscribe(c) has returned is forwarded.
C19_ResubscribeResets ==
    /\ [](FirstPushAfterSubscribe => el.fwd)
    /\ [][(fg_pc = "sub_map" /\ fg_pc' = "ready") =>
             (fg_arg \in DOMAIN m_lastData' /\ m_lastData'[fg_arg] = "")]_vars

\* C20: a category handler runs for a push only if its channel was a key of the
\* map when on_message looked it up; a push whose channel was not a key is
\* dropped, adding no entry and changing no baseline.
C20_AbsentChannelDropped ==
    /\ [](el.kind = "push" =>
            /\ el.fwd => el.present
            /\ ~el.present => (~el.wrote /\ el.forward = NoForward /\ el_pc = "ret"
                                /\ el.outcome \in {"unsubscribed", "invalid", "threw"}))
    /\ [][((el'.kind = "push" /\ ~el'.present /\ el.kind = "none")
             \/ (el.kind = "push" /\ ~el.present /\ el'.kind = "none"))
           => UNCHANGED <<m_lastData, m_subscribedChannels>>]_vars

\* C20 witness: a push with data for a channel that is not in the map has been dropped
C20_Witness ==
    /\ AtReturn /\ el.kind = "push" /\ el.channel = Ticker /\ el.data = ObjPayload
    /\ ~el.present /\ el.outcome = "unsubscribed" /\ Ticker \notin DOMAIN m_lastData
    /\ con_state = "open"

\* the call returning handled a push whose params.channel did not give a name
UnnamedPush == el_pc = "ret" /\ el.kind = "push" /\ ~el.named

\* C21: a push whose channel name cannot be determined (params.channel missing, or
\* neither a string nor an object with a string name) is dropped whatever is
\* subscribed, the empty name included: when on_message returns from it no
\* handler has run and no baseline has been written.
C21_UnnamedPushDropped ==
    UnnamedPush => ~el.fwd /\ ~el.wrote /\ el.outcome # "forwarded"

\* the call returning forwarded a push to handleSubscriptionMessage
ForwardedPush == el_pc = "ret" /\ el.kind = "push" /\ el.fwd

\* the category names that occur in a channel name
Matches(channel) == { k \in {"ticker", "trades", "book"} : Find(channel, k) }

\* C22: a forwarded push goes to exactly one category, chosen by substring of the
\* channel name with the precedence ticker, then trades, then book, else generic.
C22_CategoryPrecedence ==
    ForwardedPush =>
        LET M == Matches(el.channel) IN
        /\ el.forward.category \in {"ticker", "trades", "book", "generic"}
        /\ el.forward.category = "ticker" <=> "ticker" \in M
        /\ el.forward.category = "trades" <=> ("trades" \in M /\ "ticker" \notin M)
        /\ el.forward.category = "book" <=> M = {"book"}
        /\ el.forward.category = "generic" <=> M = {}

\* a push on a channel whose name contains both "book" and "ticker" went to the
\* ticker handler
C22_Witness ==
    /\ ForwardedPush
    /\ Matches(el.channel) = {"book", "ticker"}
    /\ el.forward.category = "ticker"

\* the category of a channel name by the precedence ticker, trades, book
CategoryOf(channel) ==
    LET M == Matches(channel) IN
    IF "ticker" \in M THEN "ticker"
    ELSE IF "trades" \in M THEN "trades"
    ELSE IF "book" \in M THEN "book"
    ELSE "generic"

\* the push just handled was forwarded and its handler took the payload as an update
Delivered == el.fwd /\ el.forward.accepted

\* C23 as stated: of the pushes that differ from the baseline of their channel, the
\* ticker handler takes objects, strings, numbers and booleans and not arrays, the
\* trade handler takes arrays only, the book handler takes objects only, and a
\* generic channel has every payload delivered, whatever its shape.
C23_ShapePerCategory ==
    DifferentPush =>
        LET cat == CategoryOf(el.channel)
            t == el.data.t
        IN  /\ (cat = "ticker" /\ t = "array") => ~Delivered
            /\ (cat = "ticker" /\ t \in {"object", "string", "number", "boolean"})
                  => Delivered
            /\ cat = "trades" => (Delivered <=> t = "array")
            /\ cat = "book" => (Delivered <=> t = "object")
            /\ cat = "generic" => Delivered

\* C23 amended: the same, except that a null payload is delivered on no channel,
\* generic channels included: on_message rejects it before a category is chosen.
C23_ShapePerCategoryNonNull ==
    DifferentPush =>
        LET cat == CategoryOf(el.channel)
            t == el.data.t
        IN  /\ cat = "ticker"
                  => (Delivered <=> t \in {"object", "string", "number", "boolean"})
            /\ cat = "trades" => (Delivered <=> t = "array")
            /\ cat = "book" => (Delivered <=> t = "object")
            /\ cat = "generic" => (Delivered <=> t # "null")
            /\ t = "null" => ~el.fwd /\ el.outcome = "unexpected"

\* C23 witness: an array payload was delivered on a channel of no category
C23_Witness ==
    /\ DifferentPush
    /\ CategoryOf(el.channel) = "generic"
    /\ el.data.t = "array"
    /\ Delivered

\* on_message takes up a reply that has no result but has error
TakesErrorReply == el_pc = "idle" /\ el_pc' = "ret" /\ el'.kind = "reply" /\ el'.error # None

\* on_message returns from such a reply
LeavesErrorReply == el_pc = "ret" /\ el_pc' = "idle" /\ el.kind = "reply" /\ el.error # None

\* what an error reply has to leave alone
ErrorReplyFrame ==
    UNCHANGED <<m_authenticated, m_accessToken, m_waitingForResponse, m_connected,
                m_lastData, m_subscribedChannels>>

\* the message text of an error, as a string
MessageOf(e) == IF e.t = "object" /\ Contains(e, "message") THEN At(e, "message") ELSE None

\* C24 as stated: a reply with no result but with error gives an error
\* notification that carries error.message, or "Unknown error" when there is no
\* message, and it changes none of the authenticated flag, the token, the pending
\* flag, the connected flag and the subscription map.
C24_ErrorNotification ==
    [][/\ TakesErrorReply =>
            /\ el'.outcome = "error"
            /\ el'.notice = IF MessageOf(el'.error) = None THEN <<"Unknown error">>
                             ELSE MessageOf(el'.error).v
            /\ ErrorReplyFrame
       /\ LeavesErrorReply => ErrorReplyFrame]_vars

\* C24 amended: the same when error is an object whose message is a string or is
\* absent; an error that is not an object, or a message that is not a string, is
\* reported as a parse error instead. The state is left alone in every case.
C24_ErrorNotificationTyped ==
    [][/\ TakesErrorReply =>
            /\ IF el'.error.t = "object"
                   /\ (MessageOf(el'.error) = None \/ MessageOf(el'.error).t = "string")
               THEN /\ el'.outcome = "error"
                    /\ el'.notice = IF MessageOf(el'.error) = None THEN <<"Unknown error">>
                                     ELSE MessageOf(el'.error).v
               ELSE el'.outcome = "threw" /\ el'.notice = EmptyString
            /\ ErrorReplyFrame
       /\ LeavesErrorReply => ErrorReplyFrame]_vars

\* C24 witness: an error without message was reported as "Unknown error" while
\* the session was authenticated and subscribed
C24_Witness ==
    /\ el_pc = "ret" /\ el.kind = "reply" /\ el.error # None
    /\ MessageOf(el.error) = None /\ el.notice = <<"Unknown error">>
    /\ m_authenticated /\ Ticker \in DOMAIN m_lastData

\* the locals of a call on a message that is a parse error: text that does not
\* parse, or a push that lacks its data or its channel name
ParseError(l) ==
    \/ l.kind = "reply" /\ l.outcome = "threw" /\ l.result = None /\ l.error = None
    \/ l.kind = "push" /\ (l.data = None \/ ~l.named)

\* a step of on_message on such a message
ParseErrorStep ==
    /\ el_pc' # el_pc
    /\ IF el_pc = "idle" THEN el_pc' \in {"cmp", "ret"} /\ ParseError(el')
       ELSE el_pc \in {"cmp", "assign", "ret"} /\ ParseError(el)

\* C25: a message that does not parse or lacks a required field is dropped inside
\* on_message: no step of the call changes the connected flag, the connection,
\* the authenticated flag, the token or a baseline, nothing is forwarded, and the
\* call returns to the idle loop with the connection as it was.
C25_ParseErrorDropped ==
    [][ParseErrorStep =>
         /\ UNCHANGED <<m_connected, con_state, m_authenticated, m_accessToken, m_lastData>>
         /\ el_pc' \in {"cmp", "ret", "idle"}
         /\ el_pc' = "ret" => (el'.kind = "push" => ~el'.fwd)]_vars

\* on_close or on_fail runs: the connection becomes closed or failed
CloseOrFailHandler == con_state' # con_state /\ con_state' \in {"closed", "failed"}

\* the event loop is told to stop, or its thread is joined
Teardown ==
    \/ stopped' # stopped
    \/ perpetual /\ ~perpetual'
    \/ joinable /\ ~joinable'

SignedRequest(clientId, clientSecret, timeStamp, nonce) ==
    JObj([jsonrpc |-> JStr(<<"2.0">>), id |-> JNum(1), method |-> JStr(<<"public/auth">>),
          params |->
            JObj([grant_type |-> JStr(<<"client_signature">>),
                  client_id |-> JStr(clientId),
                  timestamp |-> JStr(timeStamp),
                  nonce |-> JStr(nonce),
                  signature |-> JStr(HmacSha256(clientSecret,
                                     timeStamp \o <<"\n">> \o nonce \o <<"\n">>)),
                  scope |-> JStr(Scope)])])

\* C27: each run of the auth callback builds one public/auth request with
\* grant_type "client_signature" whose timestamp and nonce are the ones the
\* signature was computed over, with empty data and the captured client secret as
\* key, and passes it to send on the handle on_open has just stored; it goes out
\* when that connection is still open.
C27_AuthRequestSigned ==
    [][callbackRuns' # callbackRuns =>
         /\ el_pc = "open_cb" /\ captured # None /\ m_hdl = "con"
         /\ con_state \in {"open", "closing"}
         /\ authCall'.hdl = m_hdl
         /\ \E timeStamp \in TimeStamps, nonce \in Nonces :
               authCall'.authRequest =
                 Dump(SignedRequest(captured.clientId, captured.clientSecret,
                                    timeStamp, nonce))
         /\ authRequests' = authRequests + Count(con_state = "open")]_vars

\* C27 witness: the request for the second credentials, the later timestamp and the
\* second nonce went out on the open connection
C27_Witness ==
    /\ authRequests = 1 /\ con_state = "open" /\ el_pc = "idle"
    /\ captured = [clientId |-> <<"id", "2">>, clientSecret |-> <<"key", "2">>]
    /\ authCall # None
    /\ authCall.authRequest =
         Dump(SignedRequest(<<"id", "2">>, <<"key", "2">>, <<"1700000000100">>, <<"zzzz9999">>))

\* the foreground thread is at its write of m_lastData: the assignment in
\* subscribe (line 162) or the erase in unsubscribe (line 175)
ForegroundAtMapWrite == ~aborted /\ fg_pc \in {"sub_map", "unsub_map"}

\* the event-loop thread is at an access of m_lastData inside on_message: the
\* operator[] of the comparison or the assignment of the new baseline
EventLoopAtMapAccess == ~aborted /\ el_pc \in {"cmp", "assign"}

\* C28: subscribe/unsubscribe on the foreground thread and on_message on the
\* event-loop thread are never both at an access of m_lastData of which one is an
\* insert, an erase or an assignment.
C28_NoConcurrentMapAccess == ~(ForegroundAtMapWrite /\ EventLoopAtMapAccess)

\* main() reads a choice at the menu and acts on it
ReadsChoice == main_pc = "menu" /\ <<main_pc, fg_pc, fg_ret>>' # <<main_pc, fg_pc, fg_ret>>

\* C29: a choice other than 1 to 10 is reported and the menu is shown again; the
\* loop ends, and close() is called, only on choice 10.
C29_LoopEndsOnExitOnly ==
    [][ReadsChoice =>
         /\ choice' \notin 1..10 => (main_pc' = "menu" /\ fg_pc' = "ready")
         /\ main_pc' = "closing" => choice' = 10]_vars

\* connect() of case 1 reaches line 92: it assigns m_eventLoopThread
AssignsThread ==
    /\ main_pc = "connect" /\ main_pc' = "auth_wait"
    /\ joinable' # joinable \/ aborted' # aborted

\* C30: in every run of the menu program m_eventLoopThread is not joinable at the
\* moment connect() assigns it, also when option 1 is chosen a second time.
C30_ConnectOnFreshThread == [][AssignsThread => ~joinable]_vars

\* on_message stores the access_token string of the reply it has taken up
StoresReplyToken ==
    /\ el_pc = "idle" /\ el_pc' = "auth_flag"
    /\ el'.kind = "reply" /\ Contains(el'.result, "access_token")
    /\ m_accessToken' = At(el'.result, "access_token").v

\* C31: once the authenticated flag is true it stays true in every later state,
\* also after on_close, on_fail and close(); the stored token is never cleared:
\* the only step that changes it is on_message storing the token of a reply.
C31_AuthenticatedMonotonic ==
    [][/\ m_authenticated => m_authenticated'
       /\ m_accessToken' # m_accessToken => StoresReplyToken]_vars

\* C31 witness: the session was authenticated, the transport went down, on_close
\* ran and close() returned; the flag is still true and the token still stored
C31_Witness ==
    /\ m_authenticated /\ m_accessToken \in Tokens
    /\ con_state = "closed" /\ ~m_connected
    /\ fg_pc = "ready" /\ fg_ret.op = "close" /\ ~joinable

\* C32: in every state in which the foreground thread can read isAuthenticated()
\* as true, the access token of an auth reply is already stored: on_message
\* assigns m_accessToken before it sets m_authenticated.
C32_TokenBeforeFlag == m_authenticated => m_accessToken \in Tokens

\* C32 witness: main() is in the wait of case 1 and will read the flag as true;
\* the token is there
C32_Witness ==
    /\ main_pc = "auth_wait" /\ FgReady
    /\ m_authenticated /\ m_accessToken \in Tokens

\* the event-loop thread enters or goes on in a socket callback: on_open and its
\* auth callback, on_message, on_close, on_fail
CallbackStep ==
    \/ el_pc' # el_pc /\ el_pc' \in {"open_cb", "cmp", "assign", "auth_flag", "ret"}
    \/ el_pc \in {"open_cb", "cmp", "assign", "auth_flag", "ret"} /\ el_pc' = "idle"
    \/ con_state' # con_state /\ con_state' \in {"closed", "failed"}

\* C33: once close() has returned no socket callback runs any more, so the
\* event-loop thread no longer modifies the authenticated flag, the token or a
\* baseline.
C33_QuietAfterClose ==
    [][(fg_pc = "ready" /\ fg_ret.op = "close") => ~CallbackStep]_vars

\* the locals of a call on a reply whose result.access_token is not a string
BadTokenReply(l) ==
    /\ l.kind = "reply" /\ l.result # None
    /\ Contains(l.result, "access_token")
    /\ At(l.result, "access_token").t # "string"

\* C34: a reply whose result.access_token is not a string is dropped as a parse
\* error without partial effect: no handler runs, the stored token keeps its value
\* and the authenticated flag is not changed, from the moment on_message takes the
\* message up until it returns.
C34_BadTokenNoEffect ==
    [][/\ (el_pc = "idle" /\ el_pc' # "idle" /\ BadTokenReply(el')) =>
            /\ el_pc' = "ret" /\ el'.outcome = "threw" /\ el'.handler = "none"
            /\ UNCHANGED <<m_accessToken, m_authenticated>>
       /\ (el_pc # "idle" /\ BadTokenReply(el)) =>
            /\ el_pc = "ret"
            /\ UNCHANGED <<m_accessToken, m_authenticated>>]_vars

\* C34 witness: such a reply is being dropped on an authenticated session whose
\* token is still the one stored before
C34_Witness ==
    /\ el_pc = "ret" /\ BadTokenReply(el) /\ el.outcome = "threw"
    /\ m_authenticated /\ lastStrTok # None /\ JStr(m_accessToken) = lastStrTok

\* a step of on_message: the call takes a message up, goes on, or returns
OnMessageStep ==
    /\ el_pc' # el_pc
    /\ \/ el_pc = "idle" /\ el_pc' \in {"cmp", "auth_flag", "ret"}
       \/ el_pc \in {"cmp", "assign", "auth_flag", "ret"}

\* the locals of the call that takes the step
Handling == IF el_pc = "idle" THEN el' ELSE el

\* the call handles a reply that is not an auth reply: its result, if any, has
\* no access_token
OtherReply(l) == l.kind = "reply" /\ ~CarriesToken(l)

\* C35: only an auth reply changes session state: no step of on_message on a
\* reply that goes to the summary, buy, cancel, order-book or positions handler,
\* or to none, changes the authenticated flag, the token, the connected flag, the
\* pending flag or the subscription map, and no step on a push changes the
\* authenticated flag or the token.
C35_OnlyAuthChangesSession ==
    [][OnMessageStep =>
         /\ OtherReply(Handling) =>
               UNCHANGED <<m_authenticated, m_accessToken, m_connected,
                           m_waitingForResponse, m_lastData, m_subscribedChannels>>
         /\ Handling.kind = "push" => UNCHANGED <<m_authenticated, m_accessToken>>]_vars

\* C35 witness: a reply has gone to the summary handler on an authenticated,
\* subscribed session
C35_Witness ==
    /\ el_pc = "ret" /\ el.kind = "reply" /\ el.handler = "summary"
    /\ m_authenticated /\ m_accessToken \in Tokens /\ m_connected
    /\ Ticker \in DOMAIN m_lastData /\ m_lastData[Ticker] # ""

\* subscribe(c) and unsubscribe(c) reach their statement on the map
SubscribeWrites == fg_pc = "sub_map" /\ fg_pc' = "ready"
UnsubscribeWrites == fg_pc = "unsub_map" /\ fg_pc' = "ready"

\* C36: subscribe(c) and unsubscribe(c) update the subscription map whether or
\* not the request could be sent: subscribe(c) leaves c in the set and in the map
\* with an empty baseline, unsubscribe(c) leaves c in neither, also when send()
\* reported an error because the socket is not open.
C36_MapUpdatedRegardlessOfSend ==
    [][/\ SubscribeWrites =>
            /\ fg_arg \in m_subscribedChannels'
            /\ fg_arg \in DOMAIN m_lastData' /\ m_lastData'[fg_arg] = ""
       /\ UnsubscribeWrites =>
            /\ fg_arg \notin m_subscribedChannels'
            /\ fg_arg \notin DOMAIN m_lastData']_vars

\* C36 witness: subscribe returned with a send error on a client that never
\* connected, and the channel is in the map with an empty baseline
C36_Witness ==
    /\ fg_pc = "ready" /\ fg_ret = Returned("subscribe", TRUE)
    /\ con_state = "idle" /\ ~m_connected
    /\ Ticker \in m_subscribedChannels
    /\ Ticker \in DOMAIN m_lastData /\ m_lastData[Ticker] = ""

\* the baselines and the membership of every channel but c are the same before
\* and after the step
OthersUnchanged(c) ==
    /\ DOMAIN m_lastData' \ {c} = DOMAIN m_lastData \ {c}
    /\ \A d \in DOMAIN m_lastData \ {c} : m_lastData'[d] = m_lastData[d]
    /\ m_subscribedChannels' = m_subscribedChannels

\* another channel of the map holds the serialization of the payload handled
SeenElsewhere(l) ==
    \E d \in DOMAIN m_lastData \ {l.channel} : m_lastData[d] = Dump(l.data)

\* C37: dedup is per channel: a step of on_message that handles a push for
\* channel c leaves the baseline and the membership of every other channel as
\* they were, and a payload that differs from the baseline of c goes on to be
\* stored and forwarded whatever the baselines of the other channels are.
C37_DedupPerChannel ==
    [][(OnMessageStep /\ Handling.kind = "push") =>
         /\ OthersUnchanged(Handling.channel)
         /\ (/\ el_pc = "cmp" /\ el.data # None /\ Forwardable(el.data)
             /\ el.channel \in DOMAIN m_lastData
             /\ m_lastData[el.channel] # Dump(el.data)) => el_pc' = "assign"
         /\ el_pc = "assign" =>
               /\ el'.outcome = "forwarded" /\ el'.forward # NoForward
               /\ m_lastData'[el.channel] = Dump(el.data)]_vars

\* C37 witness: a payload was forwarded on one channel while another channel of
\* the map already had it as its baseline
C37_Witness ==
    /\ el_pc = "ret" /\ el.kind = "push" /\ el.outcome = "forwarded"
    /\ el.channel = Ticker /\ Ticker \in DOMAIN m_lastData
    /\ m_lastData[Ticker] = Dump(el.data)
    /\ SeenElsewhere(el)
    /\ DedupChannels \subseteq m_subscribedChannels

\* C38: the set of subscribed channel names and the key set of the baseline map
\* are equal whenever no call of subscribe, unsubscribe or on_message is between
\* two of its statements.
C38_SetEqualsKeys ==
    (fg_pc = "ready" /\ InboundQuiet) => m_subscribedChannels = DOMAIN m_lastData

====
